---- MODULE Spec2Model ----
(***************************************************************************)
(* A model of connect4.py: the BaseGame/Game position and its place        *)
(* operation, the GUI events that reach it, and CachingAlphaBetaBot with   *)
(* its make/unmake simulation and its lru_cache'd _explore search.         *)
(***************************************************************************)
EXTENDS Integers, Sequences, FiniteSets, TLC

VARIABLES
    n_cols, n_rows, n_connect, n_players,   \* BaseGame configuration
    board_id, heights, player_turn, total_moves, player_masked_board_ids,
    bots,           \* Game.bots: the set of players a bot plays for
    bot,            \* the bot instance assigned to them
    cache,          \* the bot's lru_cache, least recently used entry first
    pending,        \* bot callbacks scheduled with root.after and not yet run
    click_bound,    \* whether <Button-1> is bound on the board canvas
    state_label,    \* what the GUI's state label shows
    sim,            \* the bot's own fields and the locals of a running simulation
    ev              \* the last event handled, with what it saw and returned

vars == <<n_cols, n_rows, n_connect, n_players, board_id, heights, player_turn,
          total_moves, player_masked_board_ids, bots, bot, cache, pending,
          click_bound, state_label, sim, ev>>

config == <<n_cols, n_rows, n_connect, n_players>>

----------------------------------------------------------------------------
(* Bounds of the model *)

MaxCells == 6
MaxDeepCells == 8
MaxPlayers == 3
MaxStatePlayers == 2
MaxDepth == 2
MaxCache == 3

(* Program constants *)

MinSize == 2
inf == 1000000
cache_default == 5000000

Max(a, b) == IF a >= b THEN a ELSE b
Min(a, b) == IF a <= b THEN a ELSE b
Abs(a) == IF a < 0 THEN -a ELSE a

RECURSIVE Pow(_, _)
Pow(b, e) == IF e = 0 THEN 1 ELSE b * Pow(b, e - 1)

(* mask & (1 << i) *)
BitAnd1(mask, i) == (mask \div Pow(2, i)) % 2 = 1
(* mask |= 1 << i *)
BitOr1(mask, i) == IF BitAnd1(mask, i) THEN mask ELSE mask + Pow(2, i)

RECURSIVE SumTo(_, _)
SumTo(f, n) == IF n = 0 THEN 0 ELSE f[n - 1] + SumTo(f, n - 1)

----------------------------------------------------------------------------
(* BaseGame *)

(* The assertions of BaseGame.__init__ *)
ValidConfig(c, r, k, p) ==
    /\ c >= MinSize /\ r >= MinSize /\ p >= MinSize
    /\ MinSize <= k /\ k <= Max(c, r)

position_multipliers(row, col) == Pow(n_players + 1, row * n_cols + col)

(* The position as one value: the fields place and the simulation work on *)
Position == [board_id |-> board_id, heights |-> heights,
             player_turn |-> player_turn, total_moves |-> total_moves,
             masks |-> player_masked_board_ids]

get_tile(id, row, col) ==
    (id % (position_multipliers(row, col) * (n_players + 1)))
        \div position_multipliers(row, col)

(* The loops of board_to_board_id from cell pos down (the last row first,   *)
(* each row from its last column): the key so far times P + 1, plus the     *)
(* cell. The board has n_rows rows of n_cols cells.                         *)
RECURSIVE board_to_board_id_from(_, _, _, _)
board_to_board_id_from(board, players, pos, id) ==
    IF pos < 0 THEN id
    ELSE board_to_board_id_from(board, players, pos - 1,
             id * (players + 1) + board[pos \div n_cols][pos % n_cols])

(* A variant of board_to_board_id that runs each row from its first column *)
board_to_board_id_columns_up(board, players) ==
    board_to_board_id_from([r \in 0..(n_rows - 1) |->
                               [c \in 0..(n_cols - 1) |-> board[r][n_cols - 1 - c]]],
                           players, n_rows * n_cols - 1, 0)

board_to_board_id(board, players) ==
    board_to_board_id_from(board, players, n_rows * n_cols - 1, 0)

(* A variant of get_board that forgets to reduce the key as it goes *)
RECURSIVE get_board_keeping_rest(_, _, _)
get_board_keeping_rest(rest, pos, board) ==
    IF pos < 0 THEN board
    ELSE LET m == position_multipliers(pos \div n_cols, pos % n_cols)
         IN  get_board_keeping_rest(rest, pos - 1,
                 [board EXCEPT ![pos \div n_cols][pos % n_cols] = rest \div m])

(* The loops of get_board from cell pos down: the quotient of what is left  *)
(* of the key by the cell's multiplier, then the remainder for the rest.    *)
RECURSIVE get_board_from(_, _, _)
get_board_from(rest, pos, board) ==
    IF pos < 0 THEN board
    ELSE LET m == position_multipliers(pos \div n_cols, pos % n_cols)
         IN  get_board_from(rest % m, pos - 1,
                 [board EXCEPT ![pos \div n_cols][pos % n_cols] = rest \div m])

get_board(id) ==
    get_board_from(id, n_cols * n_rows - 1,
                   [row \in 0..(n_rows - 1) |-> [col \in 0..(n_cols - 1) |-> 0]])

(* One arm of the scan of _check_win: the cells at distance i, i+1, ... in  *)
(* direction (dr, dc) that are on the board and set in mask, until the      *)
(* first that is not, at most n_connect - 1 of them.                        *)
RECURSIVE Run(_, _, _, _, _, _)
Run(mask, row, col, dr, dc, i) ==
    LET r == row + i * dr
        c == col + i * dc
    IN  IF i >= n_connect THEN 0
        ELSE IF /\ 0 <= r /\ r < n_rows /\ 0 <= c /\ c < n_cols
                /\ BitAnd1(mask, r * n_cols + c)
             THEN 1 + Run(mask, row, col, dr, dc, i + 1)
             ELSE 0

directions == << <<1, 0>>, <<0, 1>>, <<1, 1>>, <<1, -1>> >>

(* Variants of _check_win and place with a slip *)
check_win_three_axes(masks, row, col, player) ==
    \E d \in 1..(Len(directions) - 1) :
        LET dr == directions[d][1]
            dc == directions[d][2]
        IN  1 + Run(masks[player], row, col, dr, dc, 1)
              + Run(masks[player], row, col, -dr, -dc, 1) >= n_connect

check_win(masks, row, col, player) ==
    \E d \in 1..Len(directions) :
        LET dr == directions[d][1]
            dc == directions[d][2]
        IN  1 + Run(masks[player], row, col, dr, dc, 1)
              + Run(masks[player], row, col, -dr, -dc, 1) >= n_connect

(* CachingAlphaBetaBot._check_win: the same scan on the mask read once *)
bot_check_win(masks, row, col, player) ==
    LET masked_board_id == masks[player]
    IN  \E d \in 1..Len(directions) :
            LET dr == directions[d][1]
                dc == directions[d][2]
            IN  1 + Run(masked_board_id, row, col, dr, dc, 1)
                  + Run(masked_board_id, row, col, -dr, -dc, 1) >= n_connect

check_draw(p) == p.total_moves = n_cols * n_rows

(* A variant of the turn update that numbers the players from 0 *)
next_player_from_zero(t) == (t + 1) % n_players

next_player(t) == (t % n_players) + 1

place_draw_first(p, col) ==
    LET row == n_rows - p.heights[col] - 1
        q == [p EXCEPT !.total_moves = @ + 1,
                       !.heights[col] = @ + 1,
                       !.board_id = @ + p.player_turn * Pow(n_players + 1, row * n_cols + col),
                       !.masks[p.player_turn] = BitOr1(@, row * n_cols + col)]
    IN  IF row < 0 THEN [res |-> "INVALID", pos |-> p, row |-> row]
        ELSE IF q.total_moves = n_cols * n_rows
             THEN [res |-> "DRAW", pos |-> q, row |-> row]
        ELSE IF check_win(q.masks, row, col, p.player_turn)
             THEN [res |-> "WIN", pos |-> q, row |-> row]
        ELSE [res |-> "OK", pos |-> [q EXCEPT !.player_turn = (@ % n_players) + 1],
              row |-> row]

place_counting_first(p, col) ==
    LET row == n_rows - p.heights[col] - 1
        q == [p EXCEPT !.total_moves = @ + 1,
                       !.heights[col] = @ + 1,
                       !.board_id = @ + p.player_turn * Pow(n_players + 1, row * n_cols + col),
                       !.masks[p.player_turn] = BitOr1(@, row * n_cols + col)]
    IN  IF row < 0
        THEN [res |-> "INVALID", pos |-> [p EXCEPT !.total_moves = @ + 1], row |-> row]
        ELSE IF check_win(q.masks, row, col, p.player_turn)
             THEN [res |-> "WIN", pos |-> q, row |-> row]
        ELSE IF q.total_moves = n_cols * n_rows
             THEN [res |-> "DRAW", pos |-> q, row |-> row]
        ELSE [res |-> "OK", pos |-> [q EXCEPT !.player_turn = (@ % n_players) + 1],
              row |-> row]

place_keeping_height(p, col) ==
    LET row == n_rows - p.heights[col] - 1
        q == [p EXCEPT !.total_moves = @ + 1,
                       !.board_id = @ + p.player_turn * Pow(n_players + 1, row * n_cols + col),
                       !.masks[p.player_turn] = BitOr1(@, row * n_cols + col)]
    IN  IF row < 0 THEN [res |-> "INVALID", pos |-> p, row |-> row]
        ELSE IF check_win(q.masks, row, col, p.player_turn)
             THEN [res |-> "WIN", pos |-> q, row |-> row]
        ELSE IF q.total_moves = n_cols * n_rows
             THEN [res |-> "DRAW", pos |-> q, row |-> row]
        ELSE [res |-> "OK", pos |-> [q EXCEPT !.player_turn = (@ % n_players) + 1],
              row |-> row]

place_from_top(p, col) ==
    LET row == p.heights[col]
        q == [p EXCEPT !.total_moves = @ + 1,
                       !.heights[col] = @ + 1,
                       !.board_id = @ + p.player_turn * Pow(n_players + 1, row * n_cols + col),
                       !.masks[p.player_turn] = BitOr1(@, row * n_cols + col)]
    IN  IF row >= n_rows THEN [res |-> "INVALID", pos |-> p, row |-> -1]
        ELSE IF check_win(q.masks, row, col, p.player_turn)
             THEN [res |-> "WIN", pos |-> q, row |-> row]
        ELSE IF q.total_moves = n_cols * n_rows
             THEN [res |-> "DRAW", pos |-> q, row |-> row]
        ELSE [res |-> "OK", pos |-> [q EXCEPT !.player_turn = (@ % n_players) + 1],
              row |-> row]

(* The element a list of n_cols elements yields for index col: a negative   *)
(* index counts from the end, an index outside -n_cols..n_cols-1 raises     *)
(* IndexError (-1 here).                                                    *)
list_index(col) ==
    IF 0 <= col /\ col < n_cols THEN col
    ELSE IF -n_cols <= col /\ col < 0 THEN col + n_cols
    ELSE -1

(* BaseGame.place up to the call of game_win, game_draw or _next_turn:     *)
(* the result and the position it leaves. ERROR is an exception that        *)
(* reaches the caller: IndexError from heights[col] before anything is      *)
(* written, or ValueError from a negative shift count after total_moves,    *)
(* heights and board_id were written.                                       *)
place(p, col) ==
    LET at == list_index(col)
        row == n_rows - p.heights[at] - 1
        shift == row * n_cols + col
        written == [p EXCEPT !.total_moves = @ + 1,
                             !.heights[at] = @ + 1,
                             !.board_id = @ + p.player_turn * position_multipliers(row, at)]
        q == [written EXCEPT !.masks[p.player_turn] = BitOr1(@, shift)]
    IN  IF at < 0 THEN [res |-> "ERROR", pos |-> p, row |-> -1]
        ELSE IF row < 0 THEN [res |-> "INVALID", pos |-> p, row |-> row]
        ELSE IF shift < 0 THEN [res |-> "ERROR", pos |-> written, row |-> row]
        ELSE IF check_win(q.masks, row, col, p.player_turn)
             THEN [res |-> "WIN", pos |-> q, row |-> row]
        ELSE IF check_draw(q) THEN [res |-> "DRAW", pos |-> q, row |-> row]
        ELSE [res |-> "OK", pos |-> [q EXCEPT !.player_turn = next_player(@)],
              row |-> row]

----------------------------------------------------------------------------
(* CachingAlphaBetaBot *)

(* What _make_move hands to the search: the game's heights and masks lists  *)
(* themselves (aliases) and copies of player_turn and total_moves.          *)
SimOf(p) == [heights |-> p.heights, masks |-> p.masks,
             player_turn |-> p.player_turn, total_moves |-> p.total_moves]

(* A variant of _simulation_place that forgets to count the move *)
simulation_place_uncounted(st, id, col) ==
    LET row == n_rows - st.heights[col] - 1
    IN  IF row < 0 THEN [row |-> row, board_id |-> id, st |-> st]
        ELSE [row |-> row,
              board_id |-> id + st.player_turn * position_multipliers(row, col),
              st |-> [st EXCEPT !.heights[col] = @ + 1,
                                !.masks[st.player_turn] = BitOr1(@, row * n_cols + col),
                                !.player_turn = next_player(@)]]

(* A variant of _simulation_place that advances the turn before it writes   *)
(* the mask                                                                 *)
simulation_place_turn_first(st, id, col) ==
    LET row == n_rows - st.heights[col] - 1
    IN  IF row < 0 THEN [row |-> row, board_id |-> id, st |-> st]
        ELSE [row |-> row,
              board_id |-> id + st.player_turn * position_multipliers(row, col),
              st |-> [st EXCEPT !.total_moves = @ + 1,
                                !.heights[col] = @ + 1,
                                !.masks[next_player(st.player_turn)] =
                                    BitOr1(@, row * n_cols + col),
                                !.player_turn = next_player(@)]]

simulation_place(st, id, col) ==
    LET row == n_rows - st.heights[col] - 1
    IN  IF row < 0 THEN [row |-> row, board_id |-> id, st |-> st]
        ELSE [row |-> row,
              board_id |-> id + st.player_turn * position_multipliers(row, col),
              st |-> [st EXCEPT !.total_moves = @ + 1,
                                !.heights[col] = @ + 1,
                                !.masks[st.player_turn] = BitOr1(@, row * n_cols + col),
                                !.player_turn = next_player(@)]]

prev_player(t) == IF t > 1 THEN t - 1 ELSE n_players

(* Variants of _simulation_undo_turn with a slip *)
undo_keeping_mask(st, id, col) ==
    LET row == n_rows - st.heights[col]
        turn == prev_player(st.player_turn)
    IN  [board_id |-> id - turn * position_multipliers(row, col),
         st |-> [st EXCEPT !.total_moves = @ - 1,
                           !.heights[col] = @ - 1,
                           !.player_turn = turn]]

undo_without_wrap(st, id, col) ==
    LET row == n_rows - st.heights[col]
        turn == st.player_turn - 1
    IN  [board_id |-> id - turn * position_multipliers(row, col),
         st |-> [st EXCEPT !.total_moves = @ - 1,
                           !.heights[col] = @ - 1,
                           !.player_turn = turn,
                           !.masks[turn] = @ - Pow(2, row * n_cols + col)]]

simulation_undo_turn(st, id, col) ==
    LET row == n_rows - st.heights[col]
        turn == prev_player(st.player_turn)
    IN  [board_id |-> id - turn * position_multipliers(row, col),
         st |-> [st EXCEPT !.total_moves = @ - 1,
                           !.heights[col] = @ - 1,
                           !.player_turn = turn,
                           !.masks[turn] = @ - Pow(2, row * n_cols + col)]]

(* Variants of the first loop with a slip: one never reports the draw of    *)
(* the last move, one tests for it before the win                           *)
RECURSIVE immediate_scan_past_last_move(_, _, _, _, _)
immediate_scan_past_last_move(st, id, col, current_turn, score_if_win) ==
    IF col >= n_cols THEN [hit |-> FALSE, res |-> <<0, 0, -1>>, st |-> st, board_id |-> id]
    ELSE
    LET pl == simulation_place(st, id, col)
    IN  IF pl.row < 0
        THEN immediate_scan_past_last_move(pl.st, pl.board_id, col + 1, current_turn,
                                           score_if_win)
        ELSE
        LET is_winning == bot_check_win(pl.st.masks, pl.row, col, current_turn)
            un == simulation_undo_turn(pl.st, pl.board_id, col)
        IN  IF is_winning
            THEN [hit |-> TRUE, res |-> <<score_if_win, current_turn, col>>,
                  st |-> un.st, board_id |-> un.board_id]
            ELSE immediate_scan_past_last_move(un.st, un.board_id, col + 1, current_turn,
                                               score_if_win)

RECURSIVE immediate_scan_draw_first(_, _, _, _, _)
immediate_scan_draw_first(st, id, col, current_turn, score_if_win) ==
    IF col >= n_cols THEN [hit |-> FALSE, res |-> <<0, 0, -1>>, st |-> st, board_id |-> id]
    ELSE
    LET pl == simulation_place(st, id, col)
    IN  IF pl.row < 0
        THEN immediate_scan_draw_first(pl.st, pl.board_id, col + 1, current_turn,
                                       score_if_win)
        ELSE
        LET is_winning == bot_check_win(pl.st.masks, pl.row, col, current_turn)
            is_last_move == pl.st.total_moves = n_cols * n_rows
            un == simulation_undo_turn(pl.st, pl.board_id, col)
        IN  IF is_last_move
            THEN [hit |-> TRUE, res |-> <<0, 0, col>>,
                  st |-> un.st, board_id |-> un.board_id]
            ELSE IF is_winning
            THEN [hit |-> TRUE, res |-> <<score_if_win, current_turn, col>>,
                  st |-> un.st, board_id |-> un.board_id]
            ELSE immediate_scan_draw_first(un.st, un.board_id, col + 1, current_turn,
                                           score_if_win)

(* The first loop of _explore_unwrapped, from column col on: the mover's    *)
(* first winning column, or the column of the last move of the board.       *)
RECURSIVE immediate_scan(_, _, _, _, _)
immediate_scan(st, id, col, current_turn, score_if_win) ==
    IF col >= n_cols THEN [hit |-> FALSE, res |-> <<0, 0, -1>>, st |-> st, board_id |-> id]
    ELSE
    LET pl == simulation_place(st, id, col)
    IN  IF pl.row < 0
        THEN immediate_scan(pl.st, pl.board_id, col + 1, current_turn, score_if_win)
        ELSE
        LET is_winning == bot_check_win(pl.st.masks, pl.row, col, current_turn)
            is_last_move == pl.st.total_moves = n_cols * n_rows
            un == simulation_undo_turn(pl.st, pl.board_id, col)
        IN  IF is_winning
            THEN [hit |-> TRUE, res |-> <<score_if_win, current_turn, col>>,
                  st |-> un.st, board_id |-> un.board_id]
            ELSE IF is_last_move
            THEN [hit |-> TRUE, res |-> <<0, 0, col>>,
                  st |-> un.st, board_id |-> un.board_id]
            ELSE immediate_scan(un.st, un.board_id, col + 1, current_turn, score_if_win)

(* A variant of the order whose offsets stop one short when C is odd *)
RECURSIVE column_order_rounded_down(_)
column_order_rounded_down(offset) ==
    LET left == (n_cols - 1) \div 2 - offset
        right == (n_cols + 1) \div 2 + offset
    IN  IF offset >= n_cols \div 2 THEN <<>>
        ELSE (IF right < n_cols THEN <<left, right>> ELSE <<left>>)
             \o column_order_rounded_down(offset + 1)

(* The columns in the order of the second loop: left, right per offset *)
RECURSIVE column_order(_)
column_order(offset) ==
    LET left == (n_cols - 1) \div 2 - offset
        right == (n_cols + 1) \div 2 + offset
    IN  IF offset >= (n_cols + 1) \div 2 THEN <<>>
        ELSE (IF right < n_cols THEN <<left, right>> ELSE <<left>>)
             \o column_order(offset + 1)

(* lru_cache: entries <<key, value>>, least recently used first *)
cache_index(c, key) ==
    IF \E i \in 1..Len(c) : c[i][1] = key
    THEN CHOOSE i \in 1..Len(c) : c[i][1] = key
    ELSE 0

cache_touch(c, i) == SubSeq(c, 1, i - 1) \o SubSeq(c, i + 1, Len(c)) \o <<c[i]>>

cache_store(c, key, val, maxsize) ==
    IF cache_index(c, key) > 0 THEN c
    ELSE IF Len(c) >= maxsize THEN Tail(c) \o << <<key, val>> >>
    ELSE c \o << <<key, val>> >>

RECURSIVE explore(_, _, _, _, _, _, _, _)
RECURSIVE expand(_, _, _, _, _, _, _, _, _, _, _)
RECURSIVE explore_unwrapped(_, _, _, _, _, _, _, _)

(* What one _explore call was entered with (the key, the remaining depth,   *)
(* the window after the defaults are filled in, the bot's player_turn and   *)
(* total_moves) and what it did: the triple it returned, the return it      *)
(* left by (leaf) and the columns its second loop tried (visits).           *)
call_record(b, st, id, remaining_depth, root, a0, b0, r) ==
    [id |-> id, depth |-> remaining_depth,
     alpha |-> IF root THEN b.initial_alpha ELSE a0,
     beta |-> IF root THEN b.initial_beta ELSE b0,
     turn |-> st.player_turn, moves |-> st.total_moves,
     res |-> r.res, leaf |-> r.leaf, visits |-> r.visits]

(* The result of a call answered by the cache *)
cache_hit(b, st, c, i, id, remaining_depth, root, a0, b0) ==
    LET r == [ok |-> TRUE, res |-> c[i][2], st |-> st, cache |-> cache_touch(c, i),
              descent |-> TRUE, leaf |-> "hit", visits |-> <<>>, calls |-> {}]
    IN  [r EXCEPT !.calls = {call_record(b, st, id, remaining_depth, root, a0, b0, r)}]

(* A variant of the wrapper that keys on (board_id, remaining_depth) alone *)
explore_keyed_without_window(b, st, c, id, remaining_depth, root, a0, b0) ==
    LET key == <<id, remaining_depth>>
        i == cache_index(c, key)
        r == explore_unwrapped(b, st, c, id, remaining_depth, root, a0, b0)
        own == call_record(b, st, id, remaining_depth, root, a0, b0, r)
    IN  IF b.cache_max_size = 0 THEN [r EXCEPT !.calls = @ \cup {own}]
        ELSE IF i > 0
        THEN cache_hit(b, st, c, i, id, remaining_depth, root, a0, b0)
        ELSE IF ~r.ok THEN [r EXCEPT !.calls = @ \cup {own}]
        ELSE [r EXCEPT !.cache = cache_store(r.cache, key, r.res, b.cache_max_size),
                       !.calls = @ \cup {own}]

(* Variants of the conversion below: one negates every child's score, one  *)
(* negates none                                                             *)
negated_score(player, current_turn, magnitude) ==
    IF player # current_turn THEN -magnitude ELSE -magnitude

unsigned_score(player, current_turn, magnitude) ==
    IF player # current_turn THEN magnitude ELSE magnitude

(* The child's result as the parent's score: negated unless the child       *)
(* expects the parent's mover to win                                        *)
parent_score(player, current_turn, magnitude) ==
    IF player # current_turn THEN -magnitude ELSE magnitude

(* A variant of the second loop that goes on to the next column when a     *)
(* score reaches beta                                                       *)
expand_without_cutoff(b, st, c, id, remaining_depth, order, i, alpha, beta, best, current_turn) ==
    IF i > Len(order)
    THEN [ok |-> TRUE, res |-> <<Abs(best[1]), best[2], best[3]>>, st |-> st, cache |-> c,
          descent |-> TRUE, leaf |-> "loop", visits |-> <<>>, calls |-> {}]
    ELSE
    LET col == order[i]
        pl == simulation_place(st, id, col)
        skipped == expand(b, pl.st, c, pl.board_id, remaining_depth, order, i + 1,
                          alpha, beta, best, current_turn)
    IN  IF pl.row < 0
        THEN [skipped EXCEPT !.visits = << <<col, FALSE, 0, 0>> >> \o @]
        ELSE
        LET ch == explore(b, pl.st, c, pl.board_id, remaining_depth - 1, FALSE,
                          -beta, -alpha)
            player == ch.res[2]
            score == parent_score(player, current_turn, ch.res[1])
            un == simulation_undo_turn(ch.st, pl.board_id, col)
            best1 == IF score > best[1] THEN <<score, player, col>> ELSE best
            deeper == /\ pl.st.total_moves > st.total_moves
                      /\ pl.st.total_moves < n_cols * n_rows
                      /\ ch.descent
            rest == expand(b, un.st, ch.cache, un.board_id, remaining_depth, order, i + 1,
                           Max(alpha, score), beta, best1, current_turn)
            visit == <<col, TRUE, score, player>>
        IN  IF ~ch.ok
            THEN [ch EXCEPT !.descent = deeper, !.leaf = "raised", !.visits = <<>>]
            ELSE [rest EXCEPT !.descent = @ /\ deeper, !.visits = <<visit>> \o @,
                              !.calls = @ \cup ch.calls]

(* The second loop of _explore_unwrapped from the i-th column of the order. *)
(* descent records whether every nested _explore call so far was made on a  *)
(* position with more tiles than its caller's and with an empty cell left.  *)
expand(b, st, c, id, remaining_depth, order, i, alpha, beta, best, current_turn) ==
    IF i > Len(order)
    THEN [ok |-> TRUE, res |-> <<Abs(best[1]), best[2], best[3]>>, st |-> st, cache |-> c,
          descent |-> TRUE, leaf |-> "loop", visits |-> <<>>, calls |-> {}]
    ELSE
    LET col == order[i]
        pl == simulation_place(st, id, col)
        skipped == expand(b, pl.st, c, pl.board_id, remaining_depth, order, i + 1,
                          alpha, beta, best, current_turn)
    IN  IF pl.row < 0
        THEN [skipped EXCEPT !.visits = << <<col, FALSE, 0, 0>> >> \o @]
        ELSE
        LET ch == explore(b, pl.st, c, pl.board_id, remaining_depth - 1, FALSE,
                          -beta, -alpha)
            player == ch.res[2]
            score == parent_score(player, current_turn, ch.res[1])
            un == simulation_undo_turn(ch.st, pl.board_id, col)
            best1 == IF score > best[1] THEN <<score, player, col>> ELSE best
            deeper == /\ pl.st.total_moves > st.total_moves
                      /\ pl.st.total_moves < n_cols * n_rows
                      /\ ch.descent
            rest == expand(b, un.st, ch.cache, un.board_id, remaining_depth, order, i + 1,
                           Max(alpha, score), beta, best1, current_turn)
            visit == <<col, TRUE, score, player>>
        IN  IF ~ch.ok
            THEN [ch EXCEPT !.descent = deeper, !.leaf = "raised", !.visits = <<>>]
            ELSE IF score >= beta
            THEN [ok |-> TRUE, res |-> <<Abs(score), player, col>>,
                  st |-> un.st, cache |-> ch.cache, descent |-> deeper,
                  leaf |-> "loop", visits |-> <<visit>>, calls |-> ch.calls]
            ELSE [rest EXCEPT !.descent = @ /\ deeper, !.visits = <<visit>> \o @,
                              !.calls = @ \cup ch.calls]

(* A variant of _explore_unwrapped whose window cut-off returns 0 *)
explore_unwrapped_zero_cutoff(b, st, c, id, remaining_depth, root, a0, b0) ==
    LET alpha == IF root THEN b.initial_alpha ELSE a0
        beta == IF root THEN b.initial_beta ELSE b0
        depth == IF remaining_depth = -1 THEN 0 ELSE remaining_depth
        current_turn == st.player_turn
        score_if_win == n_cols * n_rows - st.total_moves
        sc == immediate_scan(st, id, 0, current_turn, score_if_win)
        best_possible_score == score_if_win - n_players
        beta1 == IF best_possible_score < beta THEN best_possible_score ELSE beta
        done(ok, res, s, name) ==
            [ok |-> ok, res |-> res, st |-> s, cache |-> c, descent |-> TRUE,
             leaf |-> name, visits |-> <<>>, calls |-> {}]
    IN  IF ~(alpha < beta)
        THEN done(FALSE, <<0, 0, -1>>, st, "assert")
        ELSE IF remaining_depth = 0
        THEN done(TRUE, <<0, 0, -1>>, st, "cutoff")
        ELSE IF sc.hit
        THEN done(TRUE, sc.res, sc.st, IF sc.res[2] = 0 THEN "draw" ELSE "win")
        ELSE IF best_possible_score < beta /\ alpha >= beta1
        THEN done(TRUE, <<0, 0, -1>>, sc.st, "prune")
        ELSE expand(b, sc.st, c, sc.board_id, depth, column_order(0), 1,
                    alpha, beta1, <<-inf, 0, -1>>, current_turn)

(* A variant of _explore_unwrapped that tests the window before it looks    *)
(* for an immediate win or draw                                             *)
explore_unwrapped_window_first(b, st, c, id, remaining_depth, root, a0, b0) ==
    LET alpha == IF root THEN b.initial_alpha ELSE a0
        beta == IF root THEN b.initial_beta ELSE b0
        depth == IF remaining_depth = -1 THEN 0 ELSE remaining_depth
        current_turn == st.player_turn
        score_if_win == n_cols * n_rows - st.total_moves
        sc == immediate_scan(st, id, 0, current_turn, score_if_win)
        best_possible_score == score_if_win - n_players
        beta1 == IF best_possible_score < beta THEN best_possible_score ELSE beta
        done(ok, res, s, name) ==
            [ok |-> ok, res |-> res, st |-> s, cache |-> c, descent |-> TRUE,
             leaf |-> name, visits |-> <<>>, calls |-> {}]
    IN  IF ~(alpha < beta)
        THEN done(FALSE, <<0, 0, -1>>, st, "assert")
        ELSE IF remaining_depth = 0
        THEN done(TRUE, <<0, 0, -1>>, st, "cutoff")
        ELSE IF best_possible_score < beta /\ alpha >= beta1
        THEN done(TRUE, <<beta1, 0, -1>>, st, "prune")
        ELSE IF sc.hit
        THEN done(TRUE, sc.res, sc.st, IF sc.res[2] = 0 THEN "draw" ELSE "win")
        ELSE expand(b, sc.st, c, sc.board_id, depth, column_order(0), 1,
                    alpha, beta1, <<-inf, 0, -1>>, current_turn)

(* _explore_unwrapped. ok is FALSE when `assert alpha < beta` fails, here   *)
(* or in a nested call.                                                     *)
explore_unwrapped(b, st, c, id, remaining_depth, root, a0, b0) ==
    LET alpha == IF root THEN b.initial_alpha ELSE a0
        beta == IF root THEN b.initial_beta ELSE b0
        depth == IF remaining_depth = -1 THEN 0 ELSE remaining_depth
        turn_idx == st.total_moves
        current_turn == st.player_turn
        score_if_win == n_cols * n_rows - turn_idx
        sc == immediate_scan(st, id, 0, current_turn, score_if_win)
        best_possible_score == score_if_win - n_players
        beta1 == IF best_possible_score < beta THEN best_possible_score ELSE beta
        done(ok, res, s, name) ==
            [ok |-> ok, res |-> res, st |-> s, cache |-> c, descent |-> TRUE,
             leaf |-> name, visits |-> <<>>, calls |-> {}]
    IN  IF ~(alpha < beta)
        THEN done(FALSE, <<0, 0, -1>>, st, "assert")
        ELSE IF remaining_depth = 0
        THEN done(TRUE, <<0, 0, -1>>, st, "cutoff")
        ELSE IF sc.hit
        THEN done(TRUE, sc.res, sc.st, IF sc.res[2] = 0 THEN "draw" ELSE "win")
        ELSE IF best_possible_score < beta /\ alpha >= beta1
        THEN done(TRUE, <<beta1, 0, -1>>, sc.st, "prune")
        ELSE expand(b, sc.st, c, sc.board_id, depth, column_order(0), 1,
                    alpha, beta1, <<-inf, 0, -1>>, current_turn)

(* self._explore: _explore_unwrapped behind lru_cache(maxsize), keyed by    *)
(* the arguments of the call (two at the root, four in nested calls).       *)
explore(b, st, c, id, remaining_depth, root, a0, b0) ==
    LET key == IF root THEN <<id, remaining_depth>> ELSE <<id, remaining_depth, a0, b0>>
        i == cache_index(c, key)
        r == explore_unwrapped(b, st, c, id, remaining_depth, root, a0, b0)
        own == call_record(b, st, id, remaining_depth, root, a0, b0, r)
    IN  IF b.cache_max_size = 0 THEN [r EXCEPT !.calls = @ \cup {own}]
        ELSE IF i > 0
        THEN cache_hit(b, st, c, i, id, remaining_depth, root, a0, b0)
        ELSE IF ~r.ok THEN [r EXCEPT !.calls = @ \cup {own}]
        ELSE [r EXCEPT !.cache = cache_store(r.cache, key, r.res, b.cache_max_size),
                       !.calls = @ \cup {own}]

(* Variants of the search of _make_move: one turns "no limit" into the      *)
(* number of empty cells, one does not cap the limit by the empty cells     *)
search_counting_cells(b, p, c) ==
    explore(b, SimOf(p), c, p.board_id,
            IF b.max_depth = -1 THEN n_cols * n_rows - p.total_moves
            ELSE Min(b.max_depth, n_cols * n_rows - p.total_moves), TRUE, 0, 0)

search_uncapped(b, p, c) ==
    explore(b, SimOf(p), c, p.board_id, b.max_depth, TRUE, 0, 0)

(* The search of _make_move on position p *)
search(b, p, c) ==
    explore(b, SimOf(p), c, p.board_id,
            Min(b.max_depth, n_cols * n_rows - p.total_moves), TRUE, 0, 0)

----------------------------------------------------------------------------
(* Game and GUI *)

NoSim == [active |-> FALSE, board_id |-> 0, player_turn |-> 0, total_moves |-> 0,
          stack |-> <<>>]

NoEv == [kind |-> "init", col |-> -1, res |-> "NONE", pre |-> <<>>,
         found |-> <<>>, post |-> <<>>, cached |-> <<>>, descent |-> TRUE,
         calls |-> {}]

BoardsOf(cells) == {cr \in (MinSize..cells) \X (MinSize..cells) : cr[1] * cr[2] <= cells}

Boards == BoardsOf(MaxCells)

Windows == {<<-inf, inf>>, <<-1, 1>>}

RandomBots ==
    [kind : {"random"}, max_depth : {-1}, initial_alpha : {-inf},
     initial_beta : {inf}, cache_max_size : {cache_default}]

AlphaBetaBots ==
    {[kind |-> "alphabeta", max_depth |-> d, initial_alpha |-> w[1],
      initial_beta |-> w[2], cache_max_size |-> m] :
        d \in -1..MaxDepth, w \in Windows, m \in {MaxCache, cache_default}}

(* BaseGame.__init__ without a game_state *)
InitBaseGame(boards, players) ==
    /\ \E cr \in boards, k \in MinSize..MaxDeepCells, p \in MinSize..players :
          /\ ValidConfig(cr[1], cr[2], k, p)
          /\ n_cols = cr[1] /\ n_rows = cr[2] /\ n_connect = k /\ n_players = p
    /\ board_id = 0
    /\ heights = [c \in 0..(n_cols - 1) |-> 0]
    /\ total_moves = 0
    /\ player_masked_board_ids = [p \in 0..n_players |-> 0]

(* Game.__init__: an empty BaseGame, init_from_game (cache_clear), the GUI  *)
(* (whose _draw_board binds the click), then _next_turn() from turn 0.      *)
(* The game_state argument is not handed to BaseGame.__init__: whatever    *)
(* it is, the game starts from the empty board.                             *)
GameInit(boards, players, kinds) ==
    /\ InitBaseGame(boards, players)
    /\ bots \in SUBSET (1..n_players)
    /\ bot \in kinds
    /\ cache = <<>>
    /\ player_turn = next_player(0)
    /\ state_label = <<"TURN", player_turn>>
    /\ pending = IF player_turn \in bots THEN 1 ELSE 0
    /\ click_bound = TRUE
    /\ sim = NoSim

InitGame(boards, players, kinds) ==
    /\ GameInit(boards, players, kinds)
    /\ ev = NoEv

Snapshot == <<Position, pending, click_bound>>

(* Game.place on position p (the game's): BaseGame.place, then what         *)
(* game_win, game_draw (set_state_label, end_game -> disable_board) or      *)
(* _next_turn (_update_turn_label, root.after for a bot) do. `ran` is 1     *)
(* when a scheduled callback runs it.                                       *)
GamePlace(p, col, ran, e) ==
    LET r == place(p, col)
    IN  /\ board_id' = r.pos.board_id
        /\ heights' = r.pos.heights
        /\ player_turn' = r.pos.player_turn
        /\ total_moves' = r.pos.total_moves
        /\ player_masked_board_ids' = r.pos.masks
        /\ click_bound' = IF r.res \in {"WIN", "DRAW"} THEN FALSE ELSE click_bound
        /\ state_label' = CASE r.res = "WIN" -> <<"WIN", p.player_turn>>
                            [] r.res = "DRAW" -> <<"DRAW", -1>>
                            [] r.res = "OK" -> <<"TURN", r.pos.player_turn>>
                            [] OTHER -> state_label
        /\ pending' = pending - ran
                      + (IF r.res = "OK" /\ r.pos.player_turn \in bots THEN 1 ELSE 0)
        /\ ev' = [e EXCEPT !.col = col, !.res = r.res, !.pre = Snapshot]

(* A variant of _on_tile_click that does not look at whose turn it is *)
OnTileClickUnchecked(col) ==
    /\ click_bound
    /\ ~sim.active
    /\ GamePlace(Position, col, 0, [NoEv EXCEPT !.kind = "click"])
    /\ UNCHANGED <<config, bots, bot, cache, sim>>

(* GUI._on_tile_click *)
OnTileClick(col) ==
    /\ click_bound
    /\ ~sim.active
    /\ IF player_turn \notin bots
       THEN GamePlace(Position, col, 0, [NoEv EXCEPT !.kind = "click"])
       ELSE /\ ev' = [NoEv EXCEPT !.kind = "click_ignored", !.col = col,
                                  !.pre = Snapshot]
            /\ UNCHANGED <<board_id, heights, player_turn, total_moves,
                           player_masked_board_ids, pending, click_bound, state_label>>
    /\ UNCHANGED <<config, bots, bot, cache, sim>>

(* GUI._resize_window -> redraw_board -> _draw_board, which binds <Button-1> again *)
ResizeWindow ==
    /\ click_bound' = TRUE
    /\ ev' = [NoEv EXCEPT !.kind = "resize", !.pre = Snapshot]
    /\ UNCHANGED <<config, board_id, heights, player_turn, total_moves,
                   player_masked_board_ids, bots, bot, cache, pending,
                   state_label, sim>>

(* RandomBot.make_move, run from the event loop: place(randint) until valid *)
RandomBotMove ==
    /\ pending > 0
    /\ ~sim.active
    /\ bot.kind = "random"
    /\ \E col \in 0..(n_cols - 1) :
          /\ heights[col] < n_rows
          /\ GamePlace(Position, col, 1, [NoEv EXCEPT !.kind = "bot"])
    /\ UNCHANGED <<config, bots, bot, cache, sim>>

(* CachingAlphaBetaBot.make_move, run from the event loop: the search, the  *)
(* assertion on its column, then game.place(col). A failed assertion ends   *)
(* the callback with nothing placed.                                        *)
AlphaBetaBotMove ==
    /\ pending > 0
    /\ bot.kind = "alphabeta"
    /\ \E r \in {search(bot, Position, cache)} : LET
           col == r.res[3]
           p == [Position EXCEPT !.heights = r.st.heights, !.masks = r.st.masks]
           e == [NoEv EXCEPT !.kind = "bot", !.found = r.res, !.cached = cache,
                             !.descent = r.descent, !.calls = r.calls,
                             !.post = <<p, r.st.player_turn, r.st.total_moves>>]
       IN  /\ cache' = r.cache
           /\ IF r.ok /\ col # -1
              THEN GamePlace(p, col, 1, e)
              ELSE /\ heights' = p.heights
                   /\ player_masked_board_ids' = p.masks
                   /\ pending' = pending - 1
                   /\ ev' = [e EXCEPT !.res = "ASSERT", !.pre = Snapshot]
                   /\ UNCHANGED <<board_id, player_turn, total_moves, click_bound,
                                  state_label>>
    /\ UNCHANGED <<config, bots, bot, sim>>

(* A game of people and random bots, with the window's events *)
InitPlay == InitGame(Boards, MaxPlayers, RandomBots)

NextPlay ==
    \/ \E col \in 0..(n_cols - 1) : OnTileClick(col)
    \/ ResizeWindow
    \/ RandomBotMove

SpecPlay == InitPlay /\ [][NextPlay]_vars

(* Game.place called with any integer column, as a caller other than the   *)
(* click handler may *)
CallPlace(col) ==
    /\ ~sim.active
    /\ GamePlace(Position, col, 0, [NoEv EXCEPT !.kind = "call"])
    /\ UNCHANGED <<config, bots, bot, cache, sim>>

InitCall == InitGame(Boards, MaxStatePlayers, RandomBots) /\ bots = {}

NextCall == \E col \in (-n_cols - 1)..n_cols : CallPlace(col)

SpecCall == InitCall /\ [][NextCall]_vars

(* A game in which at least one player is an alpha-beta bot *)
InitBot == InitGame(Boards, MaxPlayers, AlphaBetaBots) /\ bots # {}

NextBot ==
    \/ \E col \in 0..(n_cols - 1) : OnTileClick(col)
    \/ AlphaBetaBotMove

SpecBot == InitBot /\ [][NextBot]_vars

(* A two-player game on a larger board with a bot of unbounded depth on at *)
(* least one side                                                          *)
DeepBots == {b \in AlphaBetaBots : b.max_depth = -1 /\ b.cache_max_size = cache_default}

InitDeep == InitGame(BoardsOf(MaxDeepCells), MinSize, DeepBots) /\ bots # {}

SpecDeep == InitDeep /\ [][NextBot]_vars

(* Construction with any small configuration and any window. When an        *)
(* assertion of BaseGame.__init__ fails there is no game: nothing is bound, *)
(* nothing is scheduled, the label shows nothing. CachingAlphaBetaBot's     *)
(* __init__ stores its window unchecked; `assert alpha < beta` runs in      *)
(* the search.                                                              *)
BadWindowBots ==
    {[kind |-> "alphabeta", max_depth |-> -1, initial_alpha |-> w[1],
      initial_beta |-> w[2], cache_max_size |-> cache_default] :
        w \in {<<0, 0>>, <<1, -1>>, <<inf, -inf>>}}

InitConstruct ==
    \/ /\ GameInit(Boards, MaxStatePlayers, DeepBots \cup BadWindowBots)
       /\ ev = NoEv
    \/ /\ \E c \in 1..(MinSize + 1), r \in 1..(MinSize + 1),
             k \in 1..(MinSize + 1), p \in 1..MaxStatePlayers :
             /\ ~ValidConfig(c, r, k, p)
             /\ n_cols = c /\ n_rows = r /\ n_connect = k /\ n_players = p
       /\ board_id = 0
       /\ heights = [c \in 0..(n_cols - 1) |-> 0]
       /\ total_moves = 0
       /\ player_turn = 0
       /\ player_masked_board_ids = [p \in 0..n_players |-> 0]
       /\ bots = {}
       /\ bot \in DeepBots \cup BadWindowBots
       /\ cache = <<>>
       /\ pending = 0
       /\ click_bound = FALSE
       /\ state_label = <<"NONE", -1>>
       /\ sim = NoSim
       /\ ev = [NoEv EXCEPT !.res = "ASSERT"]

SpecConstruct == InitConstruct /\ [][NextBot]_vars

----------------------------------------------------------------------------
(* The simulation of the bot, step by step: _make_move's four assignments,  *)
(* then _simulation_place and _simulation_undo_turn on the aliased lists,   *)
(* the undos in the reverse order of the placements.                        *)

SimState == [heights |-> heights, masks |-> player_masked_board_ids,
             player_turn |-> sim.player_turn, total_moves |-> sim.total_moves]

SimSnapshot == <<sim.board_id, SimState>>

SimAssign ==
    /\ sim' = [active |-> TRUE, board_id |-> board_id, player_turn |-> player_turn,
               total_moves |-> total_moves, stack |-> <<>>]
    /\ ev' = [NoEv EXCEPT !.kind = "sim_begin", !.pre = Snapshot]
    /\ UNCHANGED <<config, board_id, heights, player_turn, total_moves,
                   player_masked_board_ids, bots, bot, cache, pending,
                   click_bound, state_label>>

SimBegin ==
    /\ ~sim.active
    /\ state_label[1] = "TURN"
    /\ SimAssign

SimPlace(col) ==
    /\ sim.active
    /\ LET pl == simulation_place(SimState, sim.board_id, col)
       IN  /\ heights' = pl.st.heights
           /\ player_masked_board_ids' = pl.st.masks
           /\ sim' = [sim EXCEPT !.board_id = pl.board_id,
                                 !.player_turn = pl.st.player_turn,
                                 !.total_moves = pl.st.total_moves,
                                 !.stack = IF pl.row < 0 THEN @
                                           ELSE <<[col |-> col, before |-> SimSnapshot]>> \o @]
           /\ ev' = [NoEv EXCEPT !.kind = "sim_place", !.col = col,
                                 !.res = IF pl.row < 0 THEN "INVALID" ELSE "OK",
                                 !.pre = SimSnapshot, !.found = <<pl.row>>]
    /\ UNCHANGED <<config, board_id, player_turn, total_moves, bots, bot, cache,
                   pending, click_bound, state_label>>

SimUndo ==
    /\ sim.active
    /\ sim.stack # <<>>
    /\ LET top == Head(sim.stack)
           un == simulation_undo_turn(SimState, sim.board_id, top.col)
       IN  /\ heights' = un.st.heights
           /\ player_masked_board_ids' = un.st.masks
           /\ sim' = [sim EXCEPT !.board_id = un.board_id,
                                 !.player_turn = un.st.player_turn,
                                 !.total_moves = un.st.total_moves,
                                 !.stack = Tail(@)]
           /\ ev' = [NoEv EXCEPT !.kind = "sim_undo", !.col = top.col,
                                 !.pre = SimSnapshot, !.post = top.before]
    /\ UNCHANGED <<config, board_id, player_turn, total_moves, bots, bot, cache,
                   pending, click_bound, state_label>>

InitSim == InitGame(Boards, MaxPlayers, RandomBots)

NextSim ==
    \/ \E col \in 0..(n_cols - 1) : OnTileClick(col)
    \/ RandomBotMove
    \/ SimBegin
    \/ \E col \in 0..(n_cols - 1) : SimPlace(col)
    \/ SimUndo

SpecSim == InitSim /\ [][NextSim]_vars

----------------------------------------------------------------------------
(* _check_win on any board: a BaseGame built from a game_state, whose masks *)
(* __init__ derives from the board of the key, asked about a cell.          *)

RECURSIVE masks_of_cells(_, _, _)
masks_of_cells(board, masks, shift) ==
    IF shift >= n_cols * n_rows THEN masks
    ELSE masks_of_cells(board,
            [masks EXCEPT ![board[shift \div n_cols][shift % n_cols]] =
                              BitOr1(@, shift)],
            shift + 1)

masks_of_board(id, masks, shift) ==
    \* board = self.get_board(), then the loops over its cells
    LET board == get_board(id) IN masks_of_cells(board, masks, shift)

InitWin ==
    /\ \E cr \in Boards, k \in MinSize..MaxCells, p \in MinSize..MaxStatePlayers :
          /\ ValidConfig(cr[1], cr[2], k, p)
          /\ n_cols = cr[1] /\ n_rows = cr[2] /\ n_connect = k /\ n_players = p
    /\ board_id \in 0..(Pow(n_players + 1, n_cols * n_rows) - 1)
    /\ heights = [c \in 0..(n_cols - 1) |->
                    Cardinality({r \in 0..(n_rows - 1) : get_tile(board_id, r, c) # 0})]
    /\ total_moves = SumTo(heights, n_cols)
    /\ player_turn = next_player(0)
    /\ player_masked_board_ids =
          masks_of_board(board_id, [p \in 0..n_players |-> 0], 0)
    /\ bots = {}
    /\ bot \in RandomBots
    /\ cache = <<>>
    /\ pending = 0
    /\ click_bound = FALSE
    /\ state_label = <<"NONE", -1>>
    /\ sim = NoSim
    /\ ev = NoEv

CheckWin(row, col, player) ==
    /\ get_tile(board_id, row, col) = player
    /\ ev' = [NoEv EXCEPT !.kind = "check_win", !.col = col,
                          !.found = <<row, col, player>>,
                          !.res = <<check_win(player_masked_board_ids, row, col, player),
                                    bot_check_win(player_masked_board_ids, row, col, player)>>]
    /\ UNCHANGED <<config, board_id, heights, player_turn, total_moves,
                   player_masked_board_ids, bots, bot, cache, pending,
                   click_bound, state_label, sim>>

NextWin ==
    \E row \in 0..(n_rows - 1), col \in 0..(n_cols - 1), player \in 1..n_players :
        CheckWin(row, col, player)

SpecWin == InitWin /\ [][NextWin]_vars

----------------------------------------------------------------------------
(* A BaseGame built from a game_state (board_id, heights, player_turn) that *)
(* is consistent: the key is a board whose columns are filled from the      *)
(* bottom, the heights count its tiles, and the turn is a player. Its       *)
(* game_win, game_draw and _next_turn are the empty methods of BaseGame.    *)
(* The smallest n_connect is taken: the win rule only decides what place    *)
(* returns.                                                                 *)

Gravity(id) ==
    \A c \in 0..(n_cols - 1), r \in 0..(n_rows - 2) :
        get_tile(id, r, c) # 0 => get_tile(id, r + 1, c) # 0

InitState ==
    /\ \E cr \in Boards, k \in {MinSize}, p \in MinSize..MaxStatePlayers :
          /\ ValidConfig(cr[1], cr[2], k, p)
          /\ n_cols = cr[1] /\ n_rows = cr[2] /\ n_connect = k /\ n_players = p
    /\ board_id \in 0..(Pow(n_players + 1, n_cols * n_rows) - 1)
    /\ Gravity(board_id)
    /\ heights = [c \in 0..(n_cols - 1) |->
                    Cardinality({r \in 0..(n_rows - 1) : get_tile(board_id, r, c) # 0})]
    /\ total_moves = SumTo(heights, n_cols)
    /\ player_turn \in 1..n_players
    /\ player_masked_board_ids =
          masks_of_board(board_id, [p \in 0..n_players |-> 0], 0)
    /\ bots = {}
    /\ bot \in RandomBots
    /\ cache = <<>>
    /\ pending = 0
    /\ click_bound = FALSE
    /\ state_label = <<"NONE", -1>>
    /\ sim = NoSim
    /\ ev = [NoEv EXCEPT !.found = <<board_id, heights, player_turn>>]

(* BaseGame.place on the BaseGame itself *)
BasePlace(col) ==
    /\ ~sim.active
    /\ LET r == place(Position, col)
       IN  /\ board_id' = r.pos.board_id
           /\ heights' = r.pos.heights
           /\ total_moves' = r.pos.total_moves
           /\ player_masked_board_ids' = r.pos.masks
           /\ ev' = [NoEv EXCEPT !.kind = "place", !.col = col, !.res = r.res]
    /\ UNCHANGED <<config, player_turn, bots, bot, cache, pending, click_bound,
                   state_label, sim>>

(* _make_move of a bot handed the BaseGame *)
StateSimBegin ==
    /\ ~sim.active
    /\ SimAssign

NextState ==
    \/ \E col \in 0..(n_cols - 1) : BasePlace(col)
    \/ StateSimBegin
    \/ \E col \in 0..(n_cols - 1) : SimPlace(col)
    \/ SimUndo

SpecState == InitState /\ [][NextState]_vars

(* The game and the bot side by side on one position: a game in any        *)
(* consistent position, on which place is called, and a bot handed the same *)
(* position before the call, on which _simulation_place is called with the  *)
(* same column; and the two _check_win methods asked about every cell and   *)
(* player of the position as it was handed over (every consistent position  *)
(* is one).                                                                 *)
InitTwin ==
    /\ \E cr \in Boards, k \in MinSize..MaxCells, p \in MinSize..MaxStatePlayers :
          /\ ValidConfig(cr[1], cr[2], k, p)
          /\ n_cols = cr[1] /\ n_rows = cr[2] /\ n_connect = k /\ n_players = p
    /\ board_id \in 0..(Pow(n_players + 1, n_cols * n_rows) - 1)
    /\ Gravity(board_id)
    /\ heights = [c \in 0..(n_cols - 1) |->
                    Cardinality({r \in 0..(n_rows - 1) : get_tile(board_id, r, c) # 0})]
    /\ total_moves = SumTo(heights, n_cols)
    /\ player_turn \in 1..n_players
    /\ player_masked_board_ids =
          masks_of_board(board_id, [p \in 0..n_players |-> 0], 0)
    /\ bots = {}
    /\ bot \in RandomBots
    /\ cache = <<>>
    /\ pending = 0
    /\ click_bound = TRUE
    /\ state_label = <<"TURN", player_turn>>
    /\ sim = NoSim
    /\ ev = NoEv

TwinPlace(col) ==
    /\ ~sim.active
    /\ LET pl == simulation_place(SimOf(Position), board_id, col)
       IN  GamePlace(Position, col, 0,
                     [NoEv EXCEPT !.kind = "twin_place",
                                  !.found = <<pl.row, pl.board_id>>,
                                  !.post = <<pl.st>>])
    /\ UNCHANGED <<config, bots, bot, cache, sim>>

TwinCheckWin ==
    /\ ev.kind = "init"
    /\ ev' = [NoEv EXCEPT
                !.kind = "twin_check_win",
                !.found = {<<row, col, player,
                             check_win(player_masked_board_ids, row, col, player),
                             bot_check_win(player_masked_board_ids, row, col, player)>> :
                           row \in 0..(n_rows - 1), col \in 0..(n_cols - 1),
                           player \in 0..n_players}]
    /\ UNCHANGED <<config, board_id, heights, player_turn, total_moves,
                   player_masked_board_ids, bots, bot, cache, pending,
                   click_bound, state_label, sim>>

NextTwin ==
    \/ \E col \in 0..(n_cols - 1) : TwinPlace(col)
    \/ TwinCheckWin

SpecTwin == InitTwin /\ [][NextTwin]_vars

(* A BaseGame built on the key of a board: any board of the configuration  *)
(* with cells in 0..P is handed to board_to_board_id and the key to the     *)
(* constructor, with the heights of the board's columns; get_board is then  *)
(* called on it, and place where the board is one tiles can fall into.      *)
BoardsWithCells ==
    [0..(n_rows - 1) -> [0..(n_cols - 1) -> 0..n_players]]

InitKey ==
    /\ \E cr \in Boards, k \in {MinSize}, p \in MinSize..MaxStatePlayers :
          /\ ValidConfig(cr[1], cr[2], k, p)
          /\ n_cols = cr[1] /\ n_rows = cr[2] /\ n_connect = k /\ n_players = p
    /\ \E board \in BoardsWithCells :
          /\ board_id = board_to_board_id(board, n_players)
          /\ heights = [c \in 0..(n_cols - 1) |->
                          Cardinality({r \in 0..(n_rows - 1) : board[r][c] # 0})]
          /\ ev = [NoEv EXCEPT !.found = <<board>>]
    /\ total_moves = SumTo(heights, n_cols)
    /\ player_turn \in 1..n_players
    /\ player_masked_board_ids =
          masks_of_board(board_id, [p \in 0..n_players |-> 0], 0)
    /\ bots = {}
    /\ bot \in RandomBots
    /\ cache = <<>>
    /\ pending = 0
    /\ click_bound = FALSE
    /\ state_label = <<"NONE", -1>>
    /\ sim = NoSim

(* get_board, and the key of the board it returns *)
GetBoard ==
    /\ ev.kind # "get_board"
    /\ \E board \in {get_board(board_id)} :
          ev' = [NoEv EXCEPT !.kind = "get_board",
                            !.pre = IF ev.kind = "init" THEN ev.found ELSE <<>>,
                            !.found = <<board>>,
                            !.post = <<board_to_board_id(board, n_players)>>]
    /\ UNCHANGED <<config, board_id, heights, player_turn, total_moves,
                   player_masked_board_ids, bots, bot, cache, pending,
                   click_bound, state_label, sim>>

KeyPlace(col) ==
    /\ Gravity(board_id)
    /\ BasePlace(col)

NextKey ==
    \/ GetBoard
    \/ \E col \in 0..(n_cols - 1) : KeyPlace(col)

SpecKey == InitKey /\ [][NextKey]_vars

(* The consistent game_state values of the configuration *)
GameStates ==
    {<<id, [c \in 0..(n_cols - 1) |->
               Cardinality({r \in 0..(n_rows - 1) : get_tile(id, r, c) # 0})], t>> :
        id \in {i \in 0..(Pow(n_players + 1, n_cols * n_rows) - 1) : Gravity(i)},
        t \in 1..n_players}

(* Game(..., game_state = gs): ev.found keeps the argument *)
InitStart ==
    /\ GameInit(Boards, MaxStatePlayers, RandomBots)
    /\ \E gs \in GameStates : ev = [NoEv EXCEPT !.found = gs]

SpecStart == InitStart /\ [][NextPlay]_vars

----------------------------------------------------------------------------
(* Properties *)

BotEvent == ev.kind = "bot" /\ bot.kind = "alphabeta"

(* C1: for every non-terminal position, player count, depth setting and     *)
(* initial window the search returns a column inside the board that is not  *)
(* full, so the assertion col != -1 of _make_move never fails.              *)
C1_LegalColumn ==
    BotEvent =>
        /\ ev.res # "ASSERT"
        /\ ev.found[3] \in 0..(n_cols - 1)
        /\ ev.pre[1].heights[ev.found[3]] < n_rows

(* C2: when the top-level search returns, the game's heights and masks and  *)
(* the bot's total_moves and player_turn hold the values they had before    *)
(* it, and the only change _make_move makes is the final game.place(col).   *)
C2_SearchRestores ==
    BotEvent =>
        /\ ev.post = <<ev.pre[1], ev.pre[1].player_turn, ev.pre[1].total_moves>>
        /\ Position = IF ev.res = "ASSERT" THEN ev.pre[1]
                      ELSE place(ev.pre[1], ev.col).pos

C2_Witness ==
    /\ BotEvent
    /\ ev.res = "OK"
    /\ ev.pre[1].total_moves > 0
    /\ Len(cache) > 1

(* C3: undoing simulated placements in reverse order restores the key, the  *)
(* heights, total_moves, player_turn and every mask to what they were       *)
(* before the placement undone, whatever the placements completed.          *)
C3_UndoRestores ==
    ev.kind = "sim_undo" => SimSnapshot = ev.post

C3_Witness ==
    /\ ev.kind = "sim_undo"
    /\ ev.pre[2].total_moves = n_cols * n_rows
    /\ sim.stack = <<>>
    /\ SimSnapshot = <<board_id, SimOf(Position)>>

(* The value of position p for its mover by plain minimax over place: a    *)
(* win by the tile placed at move count m (counted before the tile when     *)
(* `tile` is 0, with it when `tile` is 1) is worth C*R - m to its mover,    *)
(* a full board 0, and a position is worth the best of its moves.           *)
RECURSIVE Minimax(_, _)
Minimax(p, tile) ==
    LET worth(col) ==
            LET r == place(p, col)
            IN  CASE r.res = "WIN" -> n_cols * n_rows - (p.total_moves + tile)
                  [] r.res = "DRAW" -> 0
                  [] OTHER -> -Minimax(r.pos, tile)
        open == {col \in 0..(n_cols - 1) : p.heights[col] < n_rows}
        worths == {worth(col) : col \in open}
    IN  CHOOSE v \in worths : \A w \in worths : w <= v

Winner(p, v) == IF v > 0 THEN p.player_turn
                ELSE IF v < 0 THEN next_player(p.player_turn)
                ELSE 0

Empty(p) == n_cols * n_rows - p.total_moves

(* a bot move of a two-player game whose search reached every terminal *)
DeepBotEvent ==
    /\ BotEvent
    /\ n_players = MinSize
    /\ bot.max_depth = -1 \/ bot.max_depth >= Empty(ev.pre[1])

Strong == bot.initial_alpha = -inf /\ bot.initial_beta = inf
Weak == bot.initial_alpha = -1 /\ bot.initial_beta = 1

SignedScore == IF ev.found[2] = ev.pre[1].player_turn THEN ev.found[1] ELSE -ev.found[1]

RootIsValue(tile) ==
    LET v == Minimax(ev.pre[1], tile)
    IN  SignedScore = v /\ ev.found[2] = Winner(ev.pre[1], v)

C7_WeakWinner ==
    (DeepBotEvent /\ Weak) =>
        /\ ev.found[2] = Winner(ev.pre[1], Minimax(ev.pre[1], 0))
        /\ ev.found[2] =
              search([bot EXCEPT !.initial_alpha = -inf, !.initial_beta = inf],
                     ev.pre[1], <<>>).res[2]

C7_Witness ==
    /\ DeepBotEvent /\ Weak
    /\ bot.max_depth = -1
    /\ ev.found[2] = next_player(ev.pre[1].player_turn)
    /\ Empty(ev.pre[1]) > MinSize + 1

(* The position a key denotes in a game played from the empty board *)
PositionOfKey(id) ==
    LET h == [c \in 0..(n_cols - 1) |->
                Cardinality({r \in 0..(n_rows - 1) : get_tile(id, r, c) # 0})]
        n == SumTo(h, n_cols)
    IN  [heights |-> h,
         masks |-> [masks_of_board(id, [p \in 0..n_players |-> 0], 0) EXCEPT ![0] = 0],
         player_turn |-> (n % n_players) + 1,
         total_moves |-> n]

(* What an empty cache computes for the arguments of a cache key *)
FreshResult(key) ==
    IF Len(key) = 2
    THEN explore(bot, PositionOfKey(key[1]), <<>>, key[1], key[2], TRUE, 0, 0).res
    ELSE explore(bot, PositionOfKey(key[1]), <<>>, key[1], key[2], FALSE,
                 key[3], key[4]).res

(* C8: a search returns the (magnitude, winner) that a search of the same   *)
(* position with an empty cache returns, whatever earlier searches of the   *)
(* game left in the cache, and every cached result is the result of its     *)
(* own (board_id, remaining_depth, alpha, beta).                            *)
C8_CacheTransparent ==
    BotEvent =>
        /\ LET fresh == search(bot, ev.pre[1], <<>>).res
           IN  ev.found[1] = fresh[1] /\ ev.found[2] = fresh[2]
        /\ \A i \in 1..Len(cache) : cache[i][2] = FreshResult(cache[i][1])

(* a search that started with entries in the cache and hit some of them *)
C8_Witness ==
    /\ BotEvent
    /\ ev.cached # <<>>
    /\ bot.cache_max_size = cache_default
    /\ Len(cache) - Len(ev.cached) < Len(search(bot, ev.pre[1], <<>>).cache)

(* K cells in a row on one of the four axes, inside the board, all holding *)
(* player's tile by the key, one of them (row, col)                         *)
KLine(id, row, col, player) ==
    \E d \in {<<1, 0>>, <<0, 1>>, <<1, 1>>, <<1, -1>>}, s \in 0..(n_connect - 1) :
        \A j \in 0..(n_connect - 1) :
            LET r == row + (j - s) * d[1]
                c == col + (j - s) * d[2]
            IN  /\ r \in 0..(n_rows - 1)
                /\ c \in 0..(n_cols - 1)
                /\ get_tile(id, r, c) = player

BoardFull(id) ==
    \A r \in 0..(n_rows - 1), c \in 0..(n_cols - 1) : get_tile(id, r, c) # 0

PlaceEvent == ev.kind \in {"click", "bot"}

(* C4: a placement into a non-full column by mover t returns WIN iff the    *)
(* placed tile completes a K-line for t, otherwise DRAW iff the board is    *)
(* now full, otherwise OK; the turn advances to (t mod P) + 1 exactly on    *)
(* OK; filling the last cell with a K-line is a WIN.                        *)
C4_PlaceResult ==
    (PlaceEvent /\ ev.pre[1].heights[ev.col] < n_rows) =>
        LET t == ev.pre[1].player_turn
            row == n_rows - ev.pre[1].heights[ev.col] - 1
        IN  /\ get_tile(board_id, row, ev.col) = t
            /\ BoardFull(board_id) <=> total_moves = n_cols * n_rows
            /\ ev.res = IF KLine(board_id, row, ev.col, t) THEN "WIN"
                        ELSE IF BoardFull(board_id) THEN "DRAW"
                        ELSE "OK"
            /\ player_turn = IF ev.res = "OK" THEN (t % n_players) + 1 ELSE t

C4_Witness ==
    /\ PlaceEvent
    /\ ev.res = "WIN"
    /\ ev.pre[1].total_moves = n_cols * n_rows - 1
    /\ BoardFull(board_id)

(* C5: once a placement has returned WIN or DRAW (the label shows it), no   *)
(* later event changes the key, heights, total_moves, player_turn or masks. *)
C5_TerminalIsFinal ==
    [][state_label[1] \in {"WIN", "DRAW"} => Position' = Position]_vars

(* C9: a placement into a full column returns INVALID and leaves the        *)
(* position unchanged, in Game.place and in _simulation_place, and          *)
(* schedules no bot move.                                                   *)
C9_FullColumn ==
    /\ (PlaceEvent /\ ev.pre[1].heights[ev.col] = n_rows) =>
          ev.res = "INVALID" /\ Snapshot = ev.pre
    /\ (ev.kind = "sim_place" /\ ev.pre[2].heights[ev.col] = n_rows) =>
          ev.res = "INVALID" /\ ev.found[1] < 0 /\ SimSnapshot = ev.pre

C9_Witness ==
    /\ ev.kind = "click"
    /\ ev.pre[1].heights[ev.col] = n_rows
    /\ bots # {}
    /\ ev.pre[1].total_moves < n_cols * n_rows

(* C10: asked about a cell (r, c) that player p owns, _check_win (the       *)
(* game's and the bot's) is true iff K consecutive cells on one axis,       *)
(* inside the board and including (r, c), are all p's.                      *)
C10_CheckWin ==
    ev.kind = "check_win" =>
        LET line == KLine(board_id, ev.found[1], ev.found[2], ev.found[3])
        IN  ev.res[1] = line /\ ev.res[2] = line

C10_Witness ==
    /\ ev.kind = "check_win"
    /\ ev.res = <<TRUE, TRUE>>
    /\ n_connect = MinSize + 1
    /\ ev.found[2] = 1
    /\ n_cols = MinSize + 1

----------------------------------------------------------------------------
(* The position the last placement or undo worked on: the bot's key and     *)
(* counters while a simulation runs, the game's otherwise (heights and      *)
(* masks are the same lists).                                               *)
CurrentKey == IF sim.active THEN sim.board_id ELSE board_id
CurrentMoves == IF sim.active THEN sim.total_moves ELSE total_moves

Cells == 0..(n_cols * n_rows - 1)

SetBits(mask) == Cardinality({i \in Cells : BitAnd1(mask, i)})

RECURSIVE SetBitsUpTo(_, _)
SetBitsUpTo(masks, p) ==
    IF p = 0 THEN 0 ELSE SetBits(masks[p]) + SetBitsUpTo(masks, p - 1)

Moved == ev.kind \in {"click", "bot", "sim_place", "sim_undo"}

(* C11: after every completed place (game or simulation) and every undo,    *)
(* total_moves is the sum of the heights and the number of bits set in the  *)
(* masks of players 1..P.                                                   *)
C11_MoveCount ==
    Moved =>
        /\ CurrentMoves = SumTo(heights, n_cols)
        /\ CurrentMoves = SetBitsUpTo(player_masked_board_ids, n_players)

C11_Witness ==
    /\ ev.kind = "sim_undo"
    /\ n_players = MaxPlayers
    /\ CurrentMoves > total_moves
    /\ total_moves > MinSize

(* C12: in every state reached from a consistent game_state by place and    *)
(* undo, for every cell get_tile equals the cell of get_board, equals the   *)
(* base-(P+1) digit of the key at weight (P+1)^(r*C+c), and is player       *)
(* p >= 1 exactly when bit r*C+c is set in the mask of p.                   *)
C12_KeyIsBoard ==
    \A r \in 0..(n_rows - 1), c \in 0..(n_cols - 1) :
        LET t == get_tile(CurrentKey, r, c)
        IN  /\ t = get_board(CurrentKey)[r][c]
            /\ t = (CurrentKey \div Pow(n_players + 1, r * n_cols + c)) % (n_players + 1)
            /\ \A p \in 1..n_players :
                   (t = p) <=> BitAnd1(player_masked_board_ids[p], r * n_cols + c)

C12_Witness ==
    /\ ev.kind = "sim_undo"
    /\ state_label[1] = "NONE"
    /\ Len(sim.stack) > 0
    /\ board_id > CurrentMoves
    /\ player_masked_board_ids[0] # 0
    /\ n_cols # n_rows

(* C13: after every completed place and undo the masks of two distinct      *)
(* players in 1..P share no set bit.                                        *)
C13_MasksDisjoint ==
    Moved =>
        \A p \in 1..n_players, q \in 1..n_players :
            p # q => \A i \in Cells :
                ~(BitAnd1(player_masked_board_ids[p], i)
                  /\ BitAnd1(player_masked_board_ids[q], i))

C13_Witness ==
    /\ ev.kind = "sim_undo"
    /\ n_players = MaxPlayers
    /\ \A p \in 1..n_players : SetBits(player_masked_board_ids[p]) >= 1
    /\ CurrentMoves > n_players
    /\ Len(sim.stack) > 0

(* C14: after every completed place and undo, in every column exactly the   *)
(* heights[c] bottom rows are occupied and the rows above are empty, with   *)
(* 0 <= heights[c] <= R.                                                    *)
C14_ColumnsFilledFromBottom ==
    Moved =>
        \A c \in 0..(n_cols - 1) :
            /\ heights[c] \in 0..n_rows
            /\ \A r \in 0..(n_rows - 1) :
                   /\ (get_tile(CurrentKey, r, c) # 0) <=> (r >= n_rows - heights[c])
                   /\ (\E p \in 1..n_players :
                          BitAnd1(player_masked_board_ids[p], r * n_cols + c))
                        <=> (r >= n_rows - heights[c])

C14_Witness ==
    /\ ev.kind = "sim_undo"
    /\ n_rows = MinSize + 1
    /\ heights[0] = n_rows
    /\ heights[1] = 1
    /\ CurrentMoves > total_moves

(* C15: a Game constructed with a starting state (key, heights, turn)       *)
(* begins from it: its board_id, heights, total_moves and masks are those   *)
(* of the state and the first player to move is the supplied turn.          *)
C15_StartsFromState ==
    (ev.kind = "init" /\ ev.found # <<>>) =>
        /\ board_id = ev.found[1]
        /\ heights = ev.found[2]
        /\ total_moves = SumTo(ev.found[2], n_cols)
        /\ \A p \in 1..n_players :
               player_masked_board_ids[p] =
                   masks_of_board(ev.found[1], [q \in 0..n_players |-> 0], 0)[p]
        /\ player_turn = ev.found[3]

(* C16: a board click received while player_turn is a bot's places no tile  *)
(* and changes no game state, whenever it arrives relative to the bot's     *)
(* scheduled callback.                                                      *)
C16_ClickOnBotTurn ==
    (ev.kind \in {"click", "click_ignored"} /\ ev.pre[1].player_turn \in bots) =>
        Snapshot = ev.pre

C16_Witness ==
    /\ ev.kind = "click_ignored"
    /\ pending > 0
    /\ state_label = <<"TURN", player_turn>>
    /\ total_moves > 1
    /\ bots # 1..n_players
    /\ heights[ev.col] < n_rows

(* C17: the search of _make_move ends, for every depth setting: every       *)
(* nested _explore call is made on a position with more tiles than its      *)
(* caller's, none on a full board, and full columns are skipped, so a       *)
(* column it returns has room.                                              *)
C17_SearchDescends ==
    BotEvent =>
        /\ ev.descent
        /\ \/ ev.found[3] = -1
           \/ /\ ev.found[3] \in 0..(n_cols - 1)
              /\ ev.pre[1].heights[ev.found[3]] < n_rows

C17_Witness ==
    /\ BotEvent
    /\ bot.max_depth = -1
    /\ ev.descent
    /\ Len(cache) > Len(ev.cached) + MinSize
    /\ \E c \in 0..(n_cols - 1) : ev.pre[1].heights[c] = n_rows
    /\ ev.found[3] # -1

(* C18: place called with a column outside 0..C-1 is reported to the caller *)
(* as an invalid move (INVALID, or an exception) and leaves board_id,       *)
(* heights, total_moves, player_turn and every mask unchanged.              *)
C18_OutOfRange ==
    (ev.kind = "call" /\ ev.col \notin 0..(n_cols - 1)) =>
        /\ ev.res \in {"INVALID", "ERROR"}
        /\ Position = ev.pre[1]

(* C19: construction fails (no usable game or bot) whenever C < 2, R < 2,   *)
(* P < 2, K < 2, K > max(C, R), or the bot's window has alpha0 >= beta0.    *)
C19_ConstructionFails ==
    (\/ ~ValidConfig(n_cols, n_rows, n_connect, n_players)
     \/ bot.initial_alpha >= bot.initial_beta)
        => state_label[1] = "NONE"

(* The columns in which the mover of the searched position wins at once *)
WinningColumns ==
    {c \in 0..(n_cols - 1) :
        ev.pre[1].heights[c] < n_rows /\ place(ev.pre[1], c).res = "WIN"}

ImmediateWinEvent == BotEvent /\ bot.max_depth # 0 /\ WinningColumns # {}

Calls == IF BotEvent THEN ev.calls ELSE {}

HeightOf(id, c) == Cardinality({r \in 0..(n_rows - 1) : get_tile(id, r, c) # 0})

OpenColumns(call) == {c \in 0..(n_cols - 1) : HeightOf(call.id, c) < n_rows}

ChildKey(call, c) ==
    call.id + call.turn * position_multipliers(n_rows - HeightOf(call.id, c) - 1, c)

CallWins(call) ==
    {c \in OpenColumns(call) :
        KLine(ChildKey(call, c), n_rows - HeightOf(call.id, c) - 1, c, call.turn)}

EmptyCells(call) == n_cols * n_rows - call.moves

Bound(call) == EmptyCells(call) - n_players

DepthCut(call) == call.depth = 0

ImmediateWin(call) == call.depth # 0 /\ CallWins(call) # {}

LastTileDraw(call) == call.depth # 0 /\ CallWins(call) = {} /\ EmptyCells(call) = 1

Expandable(call) == call.depth # 0 /\ CallWins(call) = {} /\ EmptyCells(call) > 1

WindowCut(call) == Expandable(call) /\ call.alpha >= Bound(call)

Expanded(call) == Expandable(call) /\ call.alpha < Bound(call)

(* the visits of a call that placed a tile and recursed *)
Tried(call) == {i \in 1..Len(call.visits) : call.visits[i][2]}

(* the calls that can have answered the recursion of a visit (column v[1]) *)
ChildCalls(call, v) ==
    {ch \in Calls :
        /\ ch.id = ChildKey(call, v[1])
        /\ ch.depth = (IF call.depth = -1 THEN -1 ELSE call.depth - 1)
        /\ ch.moves = call.moves + 1}

(* C21: whenever _explore returns expected_winner = 0 the magnitude is 0,   *)
(* and the parent-relative score s of a child whose winner is 0 is 0.       *)
C21_ZeroWinnerZeroMagnitude ==
    \A call \in Calls :
        /\ call.res[2] = 0 => call.res[1] = 0
        /\ \A i \in Tried(call) : call.visits[i][4] = 0 => call.visits[i][3] = 0

(* C21 as amended: a depth cut-off and a draw by the last tile return       *)
(* (0, 0, .); a window cut-off returns winner 0 with magnitude beta, the    *)
(* bound (C*R - total_moves) - P, which need not be 0; and the              *)
(* parent-relative score of a child whose winner is 0 is s = -m_c.          *)
C21_ZeroWinnerMagnitude ==
    \A call \in Calls :
        /\ DepthCut(call) => call.res = <<0, 0, -1>>
        /\ LastTileDraw(call) => call.res[1] = 0 /\ call.res[2] = 0
        /\ WindowCut(call) => call.res = <<Bound(call), 0, -1>>
        /\ \A i \in Tried(call) :
              call.visits[i][4] = 0 =>
                  \E ch \in ChildCalls(call, call.visits[i]) :
                      ch.res[2] = 0 /\ call.visits[i][3] = -ch.res[1]

(* a search with a cut-off by the window whose beta is not 0 and a caller   *)
(* that turns it into a score that is not 0                                 *)
C21_Witness ==
    /\ bot.max_depth > 0
    /\ \E call \in Calls :
          /\ WindowCut(call) /\ call.res[1] # 0
          /\ \E par \in Calls : \E i \in Tried(par) :
                /\ call \in ChildCalls(par, par.visits[i])
                /\ par.visits[i][4] = 0 /\ par.visits[i][3] # 0

(* C22: the magnitude (first component) returned by every _explore call,    *)
(* for every P >= 2 and both initial windows, is a non-negative finite      *)
(* integer.                                                                 *)
C22_MagnitudeNonNegative ==
    \A call \in Calls : 0 <= call.res[1] /\ call.res[1] < inf

(* C23: at a node whose mover has no immediately winning placement, every   *)
(* parent-relative score computed for a child in the second loop, and so    *)
(* the node's best score, is at most (C*R - total_moves) - P.               *)
C23_ScoreWithinBound ==
    \A call \in Calls :
        CallWins(call) = {} =>
            \A i \in Tried(call) : call.visits[i][3] <= Bound(call)

(* alpha of a call when its second loop reaches visit i: raised to the      *)
(* scores of the columns tried before                                       *)
RECURSIVE AlphaAt(_, _)
AlphaAt(call, i) ==
    IF i <= 1 THEN call.alpha
    ELSE IF call.visits[i - 1][2]
         THEN Max(AlphaAt(call, i - 1), call.visits[i - 1][3])
         ELSE AlphaAt(call, i - 1)

(* beta of a call in its second loop: lowered to the bound of step 3 *)
LoweredBeta(call) == Min(call.beta, Bound(call))

(* C24: with a configured alpha0 < beta0 every _explore call reachable from *)
(* _make_move is entered with alpha < beta and no assertion fails: the      *)
(* window (-beta, -alpha) handed to a child is non-empty, with beta lowered *)
(* to the upper bound and alpha raised by the children tried before.        *)
C24_WindowNeverEmpty ==
    (BotEvent /\ bot.initial_alpha < bot.initial_beta) =>
        \A call \in Calls :
            /\ call.alpha < call.beta
            /\ call.leaf \notin {"assert", "raised"}
            /\ \A i \in Tried(call) :
                  /\ AlphaAt(call, i) < LoweredBeta(call)
                  /\ \E ch \in ChildCalls(call, call.visits[i]) :
                        /\ ch.alpha = -LoweredBeta(call)
                        /\ ch.beta = -AlphaAt(call, i)

(* a call whose beta was lowered to the bound, whose alpha an earlier child *)
(* raised, and which then recursed again                                    *)
C24_Witness ==
    /\ bot.initial_alpha < bot.initial_beta
    /\ \E call \in Calls : \E i \in Tried(call) :
          /\ Bound(call) < call.beta
          /\ AlphaAt(call, i) > call.alpha
          /\ call.alpha > -inf

(* C25: an _explore call with a remaining depth other than 0 whose mover    *)
(* has a column that completes a K-line returns the mover as winner and the *)
(* lowest such column without recursing, whatever its window; one whose     *)
(* only empty cell is filled without a win returns (0, 0, that column).     *)
C25_ImmediateResult ==
    \A call \in Calls :
        /\ ImmediateWin(call) =>
              /\ call.res[2] = call.turn
              /\ call.res[3] \in CallWins(call)
              /\ \A c \in CallWins(call) : call.res[3] <= c
              /\ call.visits = <<>>
        /\ LastTileDraw(call) =>
              /\ call.res[1] = 0 /\ call.res[2] = 0
              /\ OpenColumns(call) = {call.res[3]}
              /\ call.visits = <<>>

(* a search with a nested call that wins at once, not in column 0, under a  *)
(* window the bound would have cut off, and a call that ends in the draw of *)
(* the last tile                                                            *)
C25_Witness ==
    /\ \E call \in Calls :
          /\ ImmediateWin(call)
          /\ call.moves > ev.pre[1].total_moves
          /\ call.alpha >= Bound(call)
          /\ call.res[3] > 0
    /\ \E call \in Calls : LastTileDraw(call)

(* the columns a call's second loop tried, full ones included, in order *)
VisitedColumns(call) == [i \in 1..Len(call.visits) |-> call.visits[i][1]]

(* twice the signed distance of a column from the middle of the board *)
Offcenter(c) == 2 * c - (n_cols - 1)

(* s starts at the center ((C-1)/2 for odd C, C/2 - 1 then C/2 for even C)  *)
(* and moves outward, changing sides at every step                          *)
CenterOut(s) ==
    /\ Len(s) = n_cols
    /\ {s[i] : i \in 1..Len(s)} = 0..(n_cols - 1)
    /\ s[1] = (n_cols - 1) \div 2
    /\ n_cols % 2 = 0 => s[2] = n_cols \div 2
    /\ \A i \in 1..(Len(s) - 1) :
          /\ Abs(Offcenter(s[i])) <= Abs(Offcenter(s[i + 1]))
          /\ Offcenter(s[i]) * Offcenter(s[i + 1]) <= 0

BestVisit(call) ==
    CHOOSE i \in Tried(call) :
        /\ \A j \in Tried(call) : call.visits[j][3] <= call.visits[i][3]
        /\ \A j \in Tried(call) : call.visits[j][3] = call.visits[i][3] => i <= j

RootCalls == {call \in Calls : call.moves = ev.pre[1].total_moves}

(* a call that ended without recursing *)
Leaf(call) == \A i \in 1..Len(call.visits) : ~call.visits[i][2]

(* C27: with max_depth = -1 the root call and every nested call are entered *)
(* with remaining_depth = -1, none returns by the depth cut-off, and every  *)
(* leaf of the search is an immediate win, an immediate draw, a cut-off by  *)
(* the window or a cache hit.                                               *)
C27_UnboundedDepth ==
    (BotEvent /\ bot.max_depth = -1) =>
        /\ RootCalls # {}
        /\ \A call \in Calls :
              /\ call.depth = -1
              /\ call.leaf # "cutoff"
              /\ Leaf(call) =>
                    \/ ImmediateWin(call) /\ call.res[2] = call.turn
                    \/ LastTileDraw(call) /\ call.res[3] # -1
                    \/ WindowCut(call) /\ call.res[3] = -1
                    \/ call.leaf = "hit"

(* an unbounded search three tiles deep whose leaves include a win, a draw, *)
(* a window cut-off and a cache hit                                         *)
C27_Witness ==
    /\ BotEvent /\ bot.max_depth = -1
    /\ \E call \in Calls : call.moves > ev.pre[1].total_moves + MinSize
    /\ \E call \in Calls : ImmediateWin(call) /\ call.leaf # "hit"
    /\ \E call \in Calls : LastTileDraw(call) /\ call.leaf # "hit"
    /\ \E call \in Calls : WindowCut(call) /\ call.leaf # "hit"
    /\ \E call \in Calls : call.leaf = "hit"

(* the highest total_moves the bot holds during a call of its own: a call   *)
(* that is neither cut off by depth nor answered by the cache places a tile *)
(* in its first loop                                                        *)
PeakMoves(call) ==
    IF call.depth = 0 \/ call.leaf = "hit" THEN call.moves ELSE call.moves + 1

(* C28: with a depth limit D >= 1 the root call uses remaining_depth =      *)
(* min(D, number of empty cells), total_moves never exceeds the root's      *)
(* total_moves + D during the search, and a node entered with remaining     *)
(* depth 0 returns (0, 0, -1) without placing a tile.                       *)
C28_DepthLimit ==
    (BotEvent /\ bot.max_depth >= 1) =>
        /\ RootCalls # {}
        /\ \A call \in RootCalls :
              call.depth = Min(bot.max_depth, Empty(ev.pre[1]))
        /\ \A call \in Calls :
              /\ call.depth >= 0
              /\ call.depth + call.moves
                    = Min(bot.max_depth, Empty(ev.pre[1])) + ev.pre[1].total_moves
              /\ PeakMoves(call) <= ev.pre[1].total_moves + bot.max_depth
              /\ DepthCut(call) =>
                    /\ call.res = <<0, 0, -1>>
                    /\ call.visits = <<>>
                    /\ call.leaf \in {"cutoff", "hit"}
        /\ ev.post = <<ev.pre[1], ev.pre[1].player_turn, ev.pre[1].total_moves>>

(* a search with the largest limit on a board with more empty cells than    *)
(* that, some of whose calls were cut off by depth at the root's            *)
(* total_moves + D                                                          *)
C28_Witness ==
    /\ BotEvent /\ bot.max_depth = MaxDepth
    /\ Empty(ev.pre[1]) > bot.max_depth
    /\ \E call \in Calls :
          /\ DepthCut(call) /\ call.leaf = "cutoff"
          /\ call.moves = ev.pre[1].total_moves + bot.max_depth
    /\ \E call \in Calls : ~DepthCut(call) /\ call.moves > ev.pre[1].total_moves

(* the invocations the last event scheduled: those pending after it that    *)
(* were not pending before it, the one a bot's callback used up aside       *)
Scheduled == pending - (ev.pre[2] - (IF ev.kind = "bot" THEN 1 ELSE 0))

(* C29: a placement that returns OK with a bot to move next schedules       *)
(* exactly one make_move, a placement that returns WIN, DRAW or INVALID     *)
(* schedules none, at most one invocation is pending at any time, and each  *)
(* bot invocation (of a bot whose depth setting is not 0) applies exactly   *)
(* one tile.                                                                *)
C29_OneMovePerInvocation ==
    bot.max_depth # 0 =>
    /\ pending \in {0, 1}
    /\ ev.kind \in {"click", "bot"} =>
          Scheduled = (IF ev.res = "OK" /\ player_turn \in bots THEN 1 ELSE 0)
    /\ ev.kind = "bot" =>
          /\ ev.pre[2] = 1
          /\ total_moves = ev.pre[1].total_moves + 1

TilesOf(id) ==
    Cardinality({rc \in (0..(n_rows - 1)) \X (0..(n_cols - 1)) :
                    get_tile(id, rc[1], rc[2]) # 0})

(* the mover a key implies in a game played from the empty board *)
MoverOf(id) == (TilesOf(id) % n_players) + 1

(* the board shows a finished game: it is full or holds a K-line *)
GameOver ==
    \/ BoardFull(board_id)
    \/ \E r \in 0..(n_rows - 1), c \in 0..(n_cols - 1) :
          get_tile(board_id, r, c) # 0
              /\ KLine(board_id, r, c, get_tile(board_id, r, c))

(* C30: in every state of a Game player_turn is one of 1..P, and while the  *)
(* game is not over player_turn = (total_moves mod P) + 1; so the key alone *)
(* determines the mover, and every _explore call, whether it computes a     *)
(* cache entry or is answered by one, is made for the mover its key         *)
(* implies.                                                                 *)
C30_TurnFromMoves ==
    /\ player_turn \in 1..n_players
    /\ total_moves = TilesOf(board_id)
    /\ \/ player_turn = (total_moves % n_players) + 1
       \/ GameOver
    /\ \A call \in Calls : call.turn = MoverOf(call.id) /\ call.moves = TilesOf(call.id)

(* a game past the first round of turns in which a search was answered from *)
(* entries an earlier search left in the cache                              *)
C30_Witness ==
    /\ BotEvent /\ ev.res = "OK"
    /\ total_moves > n_players
    /\ player_turn = 1
    /\ ev.cached # <<>>
    /\ \E call \in Calls :
          /\ call.leaf = "hit"
          /\ \E i \in 1..Len(ev.cached) : ev.cached[i][1][1] = call.id

(* C31: on every position and every column with room _simulation_place      *)
(* gives the key, heights, total_moves and masks that place gives, and the  *)
(* bot's _check_win answers as the game's does for every (row, col,         *)
(* player); the two placements differ only in the turn, which               *)
(* _simulation_place always advances and place leaves on a win or a draw.   *)
C31_SimulationMatchesPlace ==
    /\ (ev.kind = "twin_place" /\ ev.pre[1].heights[ev.col] < n_rows) =>
          /\ ev.found = <<n_rows - ev.pre[1].heights[ev.col] - 1, board_id>>
          /\ ev.post[1].heights = heights
          /\ ev.post[1].total_moves = total_moves
          /\ ev.post[1].masks = player_masked_board_ids
          /\ ev.post[1].player_turn = next_player(ev.pre[1].player_turn)
          /\ player_turn = (IF ev.res \in {"WIN", "DRAW"} THEN ev.pre[1].player_turn
                            ELSE ev.post[1].player_turn)
          /\ total_moves = ev.pre[1].total_moves + 1
    /\ ev.kind = "twin_check_win" => \A t \in ev.found : t[4] = t[5]

(* a winning placement past the first tiles, after which the bot's turn has *)
(* moved on and the game's has not, in a game of the most players           *)
C31_Witness ==
    /\ ev.kind = "twin_place"
    /\ ev.res = "WIN"
    /\ n_players = MaxStatePlayers
    /\ total_moves > MinSize
    /\ ev.post[1].player_turn # player_turn
    /\ ev.post[1].masks = player_masked_board_ids

(* the sum of the cells of a board from cell pos down, each times the       *)
(* (r * C + c)-th power of P + 1                                            *)
RECURSIVE WeightedCells(_, _)
WeightedCells(board, pos) ==
    IF pos < 0 THEN 0
    ELSE board[pos \div n_cols][pos % n_cols] * Pow(n_players + 1, pos)
         + WeightedCells(board, pos - 1)

(* C32: board_to_board_id and get_board are inverse: a BaseGame built on    *)
(* the key of any board with cells in 0..P returns that board from          *)
(* get_board, the key of the board get_board returns is the board_id of     *)
(* the game, and cell (r, c) weighs (P + 1)^(r * C + c) in the key.         *)
C32_KeyBoardInverse ==
    /\ ev.kind = "init" =>
          /\ board_id = WeightedCells(ev.found[1], n_rows * n_cols - 1)
          /\ get_board(board_id) = ev.found[1]
    /\ ev.kind = "get_board" =>
          /\ ev.post = <<board_id>>
          /\ ev.found[1] \in BoardsWithCells
          /\ board_id = WeightedCells(ev.found[1], n_rows * n_cols - 1)
          /\ ev.pre # <<>> => ev.found = ev.pre

(* get_board on a game built on a board no play reaches, not square, with   *)
(* tiles of several players, a tile over an empty cell and a row that is    *)
(* not its own mirror image                                                 *)
C32_Witness ==
    /\ ev.kind = "get_board"
    /\ ev.pre # <<>>
    /\ n_cols # n_rows
    /\ ~Gravity(board_id)
    /\ \A p \in 0..n_players : \E r \in 0..(n_rows - 1), c \in 0..(n_cols - 1) :
           ev.found[1][r][c] = p
    /\ ev.found[1][0][0] # ev.found[1][0][n_cols - 1]

====
